---- MODULE Spec2Model ----
(***************************************************************************)
(* LwM2M/CoAP gateway (driver.py): the three HTTP handlers reg_handler,    *)
(* cmd_handler and info_handler and the LwM2MClient operations they call.  *)
(* Each HTTP request is a cooperative task; a task only yields at an       *)
(* await (request.json(), Context.create_client_context, the response of   *)
(* ctx.request), so every action below runs one task from one await to     *)
(* the next.                                                               *)
(***************************************************************************)
EXTENDS Integers, Sequences, FiniteSets, TLC

\* ---------------------------------------------------------------- bounds
\* Total number of HTTP requests accepted in one behaviour.
MaxInv == 2

\* The concurrently running handler tasks.
Tasks == {"t1", "t2"}

\* ------------------------------------------------------- program constants
LWM2M_REG_PATH == "/rd"

\* LWM2M_OBJECTS with the firmware_result entry given the path of power.
LWM2M_OBJECTS_PowerSlip ==
    [device_identity |-> "/3/0",
     power           |-> "/3/0/7",
     memory_free     |-> "/3/0/10",
     memory_total    |-> "/3/0/9",
     network         |-> "/4/0",
     firmware_state  |-> "/5/0/3",
     firmware_result |-> "/3/0/7",
     location        |-> "/6/0"]

LWM2M_OBJECTS ==
    [device_identity |-> "/3/0",
     power           |-> "/3/0/7",
     memory_free     |-> "/3/0/10",
     memory_total    |-> "/3/0/9",
     network         |-> "/4/0",
     firmware_state  |-> "/5/0/3",
     firmware_result |-> "/5/0/5",
     location        |-> "/6/0"]

DEVICE_EPNAME == "raspi5"

\* ------------------------------------------------------------ Python values
\* None, an unassigned local, and a str (a sequence of code points).
None == [tag |-> "none", s |-> <<>>]
Unset == [tag |-> "unset", s |-> <<>>]
Str(s) == [tag |-> "str", s |-> s]

\* bytes.decode(errors="ignore") with the default utf-8 codec, for payloads
\* whose bytes are ASCII, two-byte sequences or invalid bytes: a valid
\* sequence yields its code point, an invalid byte is dropped.
RECURSIVE Utf8Ignore(_)
Utf8Ignore(b) ==
    IF b = <<>> THEN <<>>
    ELSE IF b[1] < 128 THEN <<b[1]>> \o Utf8Ignore(Tail(b))
    ELSE IF /\ b[1] >= 194 /\ b[1] <= 223 /\ Len(b) >= 2
            /\ b[2] >= 128 /\ b[2] <= 191
         THEN <<(b[1] - 192) * 64 + (b[2] - 128)>> \o Utf8Ignore(Tail(Tail(b)))
    ELSE Utf8Ignore(Tail(b))

Decode(payload) == Str(Utf8Ignore(payload))

\* ------------------------------------------------------------- aiocoap side
GET == "GET"
POST == "POST"

\* Message(code=..., uri=..., uri_query=..., payload=...); uri is
\* coap://<server_ip>:<server_port><path>, of which the path is kept.
Message(code, path, query, payload) ==
    [code |-> code, path |-> path, uri_query |-> query, payload |-> payload]

\* Code.name of the response codes the modelled server uses.
CodeName(c) ==
    CASE c = 201 -> "CREATED"
      [] c = 204 -> "CHANGED"
      [] c = 205 -> "CONTENT"
      [] c = 400 -> "BAD_REQUEST"
      [] c = 404 -> "NOT_FOUND"
      [] c = 405 -> "METHOD_NOT_ALLOWED"
      [] OTHER   -> "INTERNAL_SERVER_ERROR"

\* Code.is_successful(): class 2.
IsSuccessful(c) == c \div 100 = 2

Response(code, payload, location) ==
    [code |-> code, payload |-> payload, location_path |-> location]

\* The LwM2M server behind LWM2M_SERVER_IP:LWM2M_SERVER_PORT, as far as the
\* gateway sees it.  It answers every request that reaches it: resources with
\* a payload of their own, some with bytes that are not valid UTF-8, some
\* with an error status; a registration is accepted when it carries a
\* non-empty object list and rejected otherwise.
HasObjects(query) == Len(query) >= 4 /\ query[4] # "lwm2m="

ServerReply(m) ==
    LET p == m.path IN
    CASE m.code = POST /\ p = "/rd" /\ HasObjects(m.uri_query)
                                  -> Response(201, <<>>, <<"rd", "7">>)
      [] m.code = POST /\ p = "/rd" /\ ~HasObjects(m.uri_query)
                                  -> Response(400, <<98, 97, 100>>, <<>>)
      [] m.code = POST /\ p = "/3/0/4"  -> Response(204, <<>>, <<>>)
      [] m.code = POST /\ p = "/3/0/5"  -> Response(405, <<110, 111>>, <<>>)
      [] m.code = POST /\ p = "/5/0/2"  -> Response(500, <<255>>, <<>>)
      [] m.code = GET  /\ p = "/3/0"    -> Response(205, <<112, 105>>, <<>>)
      [] m.code = GET  /\ p = "/3/0/7"  -> Response(205, <<57, 57>>, <<>>)
      [] m.code = GET  /\ p = "/3/0/10" -> Response(205, <<255, 49, 48>>, <<>>)
      [] m.code = GET  /\ p = "/3/0/9"  -> Response(205, <<>>, <<>>)
      [] m.code = GET  /\ p = "/4/0"    -> Response(404, <<110, 102>>, <<>>)
      [] m.code = GET  /\ p = "/5/0/3"  -> Response(205, <<48>>, <<>>)
      [] m.code = GET  /\ p = "/5/0/5"  -> Response(500, <<101>>, <<>>)
      [] m.code = GET  /\ p = "/6/0"    -> Response(205, <<195, 169, 195>>, <<>>)
      [] OTHER                          -> Response(404, <<>>, <<>>)

\* ------------------------------------------------------------ HTTP requests
\* A JSON value of a request body: absent key, null, a string (v holds it),
\* a non-zero number, a list of strings (v holds them) or a list of numbers.
JAbsent == [t |-> "absent", v |-> <<>>]
JNull == [t |-> "null", v |-> <<>>]
JStr(x) == [t |-> "str", v |-> <<x>>]
JNum == [t |-> "num", v |-> <<>>]
JList(xs) == [t |-> "list", v |-> xs]
JNumList == [t |-> "numlist", v |-> <<"3">>]

\* A request body: text that is not JSON, a JSON array, a JSON number, or a
\* JSON object with its "command" and "objects" entries.
Body(json, command, objects) ==
    [json |-> json, command |-> command, objects |-> objects]

EmptyObject == Body("object", JAbsent, JAbsent)
NoBody == Body("none", JAbsent, JAbsent)

CmdBodies ==
    {Body("invalid", JAbsent, JAbsent), Body("array", JAbsent, JAbsent)}
    \cup {Body("object", c, JAbsent) :
            c \in {JAbsent, JNull, JStr(""), JNum, JStr("reboot"),
                   JStr("factory_reset"), JStr("firmware_update"),
                   JStr("shutdown")}}

RegBodies ==
    {Body("invalid", JAbsent, JAbsent), Body("array", JAbsent, JAbsent),
     Body("number", JAbsent, JAbsent)}
    \cup {Body("object", JAbsent, o) :
            o \in {JAbsent, JStr("3"), JList(<<>>), JList(<<"3", "5">>),
                   JList(<<"5", "3">>), JNumList}}

\* `if command is None` instead of `if not command`.
Truthy_NotNone(j) == j.t \notin {"absent", "null"}

\* Python truth value of a JSON value: None, "", 0 and [] are false.
Truthy(j) ==
    CASE j.t = "absent" -> FALSE
      [] j.t = "null"   -> FALSE
      [] j.t = "str"    -> j.v[1] # ""
      [] j.t = "list"   -> j.v # <<>>
      [] OTHER          -> TRUE

\* ",".join(xs)
RECURSIVE Join(_)
Join(xs) ==
    IF xs = <<>> THEN ""
    ELSE IF Len(xs) = 1 THEN xs[1]
    ELSE xs[1] \o "," \o Join(Tail(xs))

\* web.json_response(...): the status and the keys of the JSON body.
\* result, code and error are strings, location a path, payload a decoded
\* string and info the snapshot mapping; keys names the entries present.
NoInfo == [k \in {} |-> None]

NoResponse ==
    [status |-> 0, keys |-> {}, result |-> "", code |-> "", location |-> <<>>,
     payload |-> Unset, error |-> "", info |-> NoInfo]

ErrorResponse(status, msg) ==
    [NoResponse EXCEPT !.status = status, !.keys = {"error"}, !.error = msg]

\* str(e) of the exceptions the handlers catch.
ErrBind == "context creation failed"
ErrTransport == "exchange failed"
ErrUnknown == "Unknown command"
ErrJson == "body is not JSON"
ErrNoGet == "object has no attribute 'get'"
ErrNotContainer == "argument is not iterable"
ErrJoin == "sequence item: expected str instance"
ErrMissing == "Missing command parameter"

\* -------------------------------------------------------------------- state
VARIABLES
    invs,       \* HTTP requests accepted so far
    route,      \* per task: the route of the HTTP request being handled
    pc,         \* per task: the await the handler is suspended at
    body,       \* per task: the body of the HTTP request
    command,    \* per task: cmd_handler's local command
    params,     \* per task: register's argument params
    ctx,        \* per task: the context the local ctx names (NoCtx before)
    leaked,     \* contexts no frame names any more; none is ever shut down
    req,        \* per task: the request whose response is awaited
    rd,         \* per task: how many of get_device_info's reads have begun
    locals,     \* per task: get_device_info's locals identity .. location
    sent,       \* per task: the exchanges this invocation has issued
    ret,        \* per task: the call into lwm2m_client and how it ended
    response,   \* per task: the HTTP response of the handler
    gets,       \* GET exchanges issued since start
    infos       \* get_device_info invocations that created their context

vars == <<invs, route, pc, body, command, params, ctx, leaked, req, rd,
          locals, sent, ret, response, gets, infos>>

NoCtx == ""
NoReq == Message("", "", <<>>, <<>>)
NoResp == Response(0, <<>>, <<>>)

\* The reads with the paths of memory_free and memory_total exchanged.
ReadPlan_Swapped ==
    <<[local |-> "identity",     obj |-> "device_identity"],
      [local |-> "memory_free",  obj |-> "memory_total"],
      [local |-> "memory_total", obj |-> "memory_free"],
      [local |-> "network",      obj |-> "network"],
      [local |-> "fw_state",     obj |-> "firmware_state"],
      [local |-> "fw_result",    obj |-> "firmware_result"],
      [local |-> "location",     obj |-> "location"]>>

\* The locals of get_device_info that receive the reads, in program order,
\* each with the LWM2M_OBJECTS entry it reads.
ReadPlan ==
    <<[local |-> "identity",     obj |-> "device_identity"],
      [local |-> "memory_free",  obj |-> "memory_free"],
      [local |-> "memory_total", obj |-> "memory_total"],
      [local |-> "network",      obj |-> "network"],
      [local |-> "fw_state",     obj |-> "firmware_state"],
      [local |-> "fw_result",    obj |-> "firmware_result"],
      [local |-> "location",     obj |-> "location"]>>

InfoLocals == {ReadPlan[i].local : i \in 1..Len(ReadPlan)}

NoLocals == [l \in InfoLocals |-> Unset]

\* The dict get_device_info returns.
InfoDict(l) ==
    [identity               |-> l["identity"],
     memory_free            |-> l["memory_free"],
     memory_total           |-> l["memory_total"],
     network                |-> l["network"],
     firmware_state         |-> l["fw_state"],
     firmware_update_result |-> l["fw_result"],
     location               |-> l["location"]]

\* One entry of sent: the context, the request and how its exchange ended.
Exchange(c, m, outcome, resp) ==
    [ctx |-> c, req |-> m, outcome |-> outcome, resp |-> resp]

\* The call a handler makes into lwm2m_client: not made, running, returned
\* (resp or info holds the value) or raised (err holds str(e)).
NoCall == [op |-> "", state |-> "none", resp |-> NoResp, info |-> NoInfo, err |-> ""]
Call(op) == [NoCall EXCEPT !.op = op, !.state = "running"]

Init ==
    /\ invs = 0
    /\ route = [t \in Tasks |-> ""]
    /\ pc = [t \in Tasks |-> "idle"]
    /\ body = [t \in Tasks |-> NoBody]
    /\ command = [t \in Tasks |-> JAbsent]
    /\ params = [t \in Tasks |-> NoBody]
    /\ ctx = [t \in Tasks |-> NoCtx]
    /\ leaked = 0
    /\ req = [t \in Tasks |-> NoReq]
    /\ rd = [t \in Tasks |-> 0]
    /\ locals = [t \in Tasks |-> NoLocals]
    /\ sent = [t \in Tasks |-> <<>>]
    /\ ret = [t \in Tasks |-> NoCall]
    /\ response = [t \in Tasks |-> NoResponse]
    /\ gets = 0
    /\ infos = 0

\* ------------------------------------------------------------ shared steps
\* Context.create_client_context(bind=("0.0.0.0", coap_port)) returned: the
\* local ctx names the new context, which is known by the task that made it.
_get_context(t) == ctx' = [ctx EXCEPT ![t] = t]

\* The request kept in one attribute of the shared lwm2m_client instead of
\* a local: every task that awaits a response sees the latest request.
Request_Shared(t, c, log, m) ==
    /\ req' = [u \in Tasks |-> IF u = t \/ req[u] # NoReq THEN m ELSE req[u]]
    /\ sent' = [sent EXCEPT ![t] = Append(log, Exchange(c, m, "pending", NoResp))]
    /\ gets' = IF m.code = GET THEN gets + 1 ELSE gets

\* c.request(m).response is awaited: the exchange is issued.
\* log is what the invocation has issued before.
Request(t, c, log, m) ==
    /\ req' = [req EXCEPT ![t] = m]
    /\ sent' = [sent EXCEPT ![t] = Append(log, Exchange(c, m, "pending", NoResp))]
    /\ gets' = IF m.code = GET THEN gets + 1 ELSE gets

\* The awaited exchange of t ended with outcome o ("response" or "failed").
Resolved(t, o, resp) ==
    [sent[t] EXCEPT ![Len(sent[t])] = Exchange(@.ctx, req[t], o, resp)]

\* The handler returns web.json_response r; the call it made ended as c.
Return(t, c, r) ==
    /\ pc' = [pc EXCEPT ![t] = "done"]
    /\ ret' = [ret EXCEPT ![t] = c]
    /\ response' = [response EXCEPT ![t] = r]

Raised(c, e) == [c EXCEPT !.state = "raised", !.err = e]

\* The HTTP response is written and the task ends; its frame is dropped.
Deliver(t) ==
    /\ pc[t] = "done"
    /\ pc' = [pc EXCEPT ![t] = "idle"]
    /\ route' = [route EXCEPT ![t] = ""]
    /\ body' = [body EXCEPT ![t] = NoBody]
    /\ command' = [command EXCEPT ![t] = JAbsent]
    /\ params' = [params EXCEPT ![t] = NoBody]
    /\ ctx' = [ctx EXCEPT ![t] = NoCtx]
    /\ leaked' = IF ctx[t] = NoCtx THEN leaked ELSE leaked + 1
    /\ req' = [req EXCEPT ![t] = NoReq]
    /\ rd' = [rd EXCEPT ![t] = 0]
    /\ locals' = [locals EXCEPT ![t] = NoLocals]
    /\ sent' = [sent EXCEPT ![t] = <<>>]
    /\ ret' = [ret EXCEPT ![t] = NoCall]
    /\ response' = [response EXCEPT ![t] = NoResponse]
    /\ UNCHANGED <<invs, gets, infos>>

\* ------------------------------------------------------------ GET /info
\* info_handler is entered and calls get_device_info, which suspends in
\* _get_context.
InfoRequest(t) ==
    /\ pc[t] = "idle"
    /\ invs < MaxInv
    /\ invs' = invs + 1
    /\ route' = [route EXCEPT ![t] = "/info"]
    /\ pc' = [pc EXCEPT ![t] = "info_ctx"]
    /\ ret' = [ret EXCEPT ![t] = Call("get_device_info")]
    /\ UNCHANGED <<body, command, params, ctx, leaked, req, rd,
                   locals, sent, response, gets, infos>>

\* safe_get(path) up to its await: the GET on the path is issued.
safe_get(t, c, log, path) == Request(t, c, log, Message(GET, path, <<>>, <<>>))

\* What safe_get returns once its exchange ended.
safe_get_result(o, resp) ==
    IF o = "response" THEN Decode(resp.payload) ELSE None

\* The reads are started together instead of one after the other: the
\* first two are issued before either has ended.
InfoCtxCreated_TwoAtOnce(t) ==
    /\ pc[t] = "info_ctx"
    /\ _get_context(t)
    /\ UNCHANGED leaked
    /\ infos' = infos + 1
    /\ rd' = [rd EXCEPT ![t] = 1]
    /\ req' = [req EXCEPT ![t] = Message(GET, LWM2M_OBJECTS[ReadPlan[1].obj], <<>>, <<>>)]
    /\ sent' = [sent EXCEPT ![t] =
                   <<Exchange(ctx'[t], Message(GET, LWM2M_OBJECTS[ReadPlan[1].obj], <<>>, <<>>),
                              "pending", NoResp),
                     Exchange(ctx'[t], Message(GET, LWM2M_OBJECTS[ReadPlan[2].obj], <<>>, <<>>),
                              "pending", NoResp)>>]
    /\ gets' = gets + 2
    /\ pc' = [pc EXCEPT ![t] = "info_wait"]
    /\ UNCHANGED <<invs, route, body, command, params, locals, ret, response>>

\* The context is created; the first read is issued.
InfoCtxCreated(t) ==
    /\ pc[t] = "info_ctx"
    /\ _get_context(t)
    /\ UNCHANGED leaked
    /\ infos' = infos + 1
    /\ rd' = [rd EXCEPT ![t] = 1]
    /\ safe_get(t, ctx'[t], sent[t], LWM2M_OBJECTS[ReadPlan[1].obj])
    /\ pc' = [pc EXCEPT ![t] = "info_wait"]
    /\ UNCHANGED <<invs, route, body, command, params, locals, ret, response>>

\* Creating the context raises: get_device_info raises and info_handler
\* answers 500.
InfoCtxFailed(t) ==
    /\ pc[t] = "info_ctx"
    /\ Return(t, Raised(ret[t], ErrBind), ErrorResponse(500, ErrBind))
    /\ UNCHANGED <<invs, route, body, command, params, ctx, leaked, req, rd,
                   locals, sent, gets, infos>>

\* The awaited read ends with outcome o; its local is assigned and either
\* the next read is issued or the dict is returned and answered with 200.
InfoRead(t, o) ==
    /\ pc[t] = "info_wait"
    /\ LET resp == IF o = "response" THEN ServerReply(req[t]) ELSE NoResp
           l == [locals[t] EXCEPT ![ReadPlan[rd[t]].local] = safe_get_result(o, resp)]
           log == Resolved(t, o, resp)
       IN /\ locals' = [locals EXCEPT ![t] = l]
          /\ IF rd[t] < Len(ReadPlan)
             THEN /\ rd' = [rd EXCEPT ![t] = @ + 1]
                  /\ safe_get(t, ctx[t], log, LWM2M_OBJECTS[ReadPlan[rd[t] + 1].obj])
                  /\ UNCHANGED <<pc, ret, response>>
             ELSE /\ req' = [req EXCEPT ![t] = NoReq]
                  /\ sent' = [sent EXCEPT ![t] = log]
                  /\ Return(t, [ret[t] EXCEPT !.state = "returned", !.info = InfoDict(l)],
                            [NoResponse EXCEPT !.status = 200,
                                               !.keys = DOMAIN InfoDict(l),
                                               !.info = InfoDict(l)])
                  /\ UNCHANGED <<rd, gets>>
    /\ UNCHANGED <<invs, route, body, command, params, ctx, leaked, infos>>

\* safe_get without its try/except: the failure of a read leaves
\* get_device_info as an exception.
InfoReadFailed_Propagates(t) ==
    /\ pc[t] = "info_wait"
    /\ sent' = [sent EXCEPT ![t] = Resolved(t, "failed", NoResp)]
    /\ req' = [req EXCEPT ![t] = NoReq]
    /\ Return(t, Raised(ret[t], ErrTransport), ErrorResponse(500, ErrTransport))
    /\ UNCHANGED <<invs, route, body, command, params, ctx, leaked, rd, locals,
                   gets, infos>>

InfoReadResponse(t) == InfoRead(t, "response")
InfoReadFailed(t) == InfoRead(t, "failed")

\* ------------------------------------------------------------- POST /cmd
\* cmd_handler is entered and suspends in request.json().
CmdRequest(t, b) ==
    /\ pc[t] = "idle"
    /\ invs < MaxInv
    /\ invs' = invs + 1
    /\ route' = [route EXCEPT ![t] = "/cmd"]
    /\ body' = [body EXCEPT ![t] = b]
    /\ pc' = [pc EXCEPT ![t] = "cmd_json"]
    /\ UNCHANGED <<command, params, ctx, leaked, req, rd, locals,
                   sent, ret, response, gets, infos>>

\* request.json() raises, or data has no get method: answered 500.
CmdBadBody(t) ==
    /\ pc[t] = "cmd_json"
    /\ body[t].json # "object"
    /\ Return(t, NoCall,
              ErrorResponse(500, IF body[t].json = "invalid" THEN ErrJson ELSE ErrNoGet))
    /\ UNCHANGED <<invs, route, body, command, params, ctx, leaked, req, rd,
                   locals, sent, gets, infos>>

\* data.get("command") is false: answered 400.
CmdMissing(t) ==
    /\ pc[t] = "cmd_json"
    /\ body[t].json = "object"
    /\ ~Truthy(body[t].command)
    /\ command' = [command EXCEPT ![t] = body[t].command]
    /\ Return(t, NoCall, ErrorResponse(400, ErrMissing))
    /\ UNCHANGED <<invs, route, body, params, ctx, leaked, req, rd, locals,
                   sent, gets, infos>>

\* execute_command(command) is called and suspends in _get_context.
CmdDispatch(t) ==
    /\ pc[t] = "cmd_json"
    /\ body[t].json = "object"
    /\ Truthy(body[t].command)
    /\ command' = [command EXCEPT ![t] = body[t].command]
    /\ ret' = [ret EXCEPT ![t] = Call("execute_command")]
    /\ pc' = [pc EXCEPT ![t] = "cmd_ctx"]
    /\ UNCHANGED <<invs, route, body, params, ctx, leaked, req, rd, locals,
                   sent, response, gets, infos>>

\* The chain with the paths of reboot and factory_reset exchanged.
CommandPath_Swapped(c) ==
    IF c = JStr("reboot") THEN "/3/0/5"
    ELSE IF c = JStr("factory_reset") THEN "/3/0/4"
    ELSE IF c = JStr("firmware_update") THEN "/5/0/2"
    ELSE ""

\* The chain with an else branch that falls back to the reboot path.
CommandPath_Fallback(c) ==
    IF c = JStr("factory_reset") THEN "/3/0/5"
    ELSE IF c = JStr("firmware_update") THEN "/5/0/2"
    ELSE "/3/0/4"

\* The if/elif chain of execute_command: the path of a command, "" for else.
CommandPath(c) ==
    IF c = JStr("reboot") THEN "/3/0/4"
    ELSE IF c = JStr("factory_reset") THEN "/3/0/5"
    ELSE IF c = JStr("firmware_update") THEN "/5/0/2"
    ELSE ""

\* Creating the context raises: execute_command raises, answered 500.
CmdCtxFailed(t) ==
    /\ pc[t] = "cmd_ctx"
    /\ Return(t, Raised(ret[t], ErrBind), ErrorResponse(500, ErrBind))
    /\ UNCHANGED <<invs, route, body, command, params, ctx, leaked, req, rd,
                   locals, sent, gets, infos>>

\* The context is created and the command is not one of the three:
\* execute_command raises Exception("Unknown command"), answered 500.
CmdUnknown(t) ==
    /\ pc[t] = "cmd_ctx"
    /\ _get_context(t)
    /\ UNCHANGED leaked
    /\ CommandPath(command[t]) = ""
    /\ Return(t, Raised(ret[t], ErrUnknown), ErrorResponse(500, ErrUnknown))
    /\ UNCHANGED <<invs, route, body, command, params, req, rd, locals, sent,
                   gets, infos>>

\* The POST is issued but its response is not awaited: execute_command
\* returns at once and the exchange is left outstanding.
CmdPost_NoAwait(t) ==
    /\ pc[t] = "cmd_ctx"
    /\ _get_context(t)
    /\ UNCHANGED leaked
    /\ CommandPath(command[t]) # ""
    /\ Request(t, ctx'[t], sent[t], Message(POST, CommandPath(command[t]), <<>>, <<>>))
    /\ Return(t, [ret[t] EXCEPT !.state = "returned"],
              [NoResponse EXCEPT !.status = 200,
                                 !.keys = {"result", "code", "payload"},
                                 !.result = "executed"])
    /\ UNCHANGED <<invs, route, body, command, params, rd, locals, infos>>

\* The context is created and the POST on the command's path is issued.
CmdPost(t) ==
    /\ pc[t] = "cmd_ctx"
    /\ _get_context(t)
    /\ UNCHANGED leaked
    /\ CommandPath(command[t]) # ""
    /\ Request(t, ctx'[t], sent[t], Message(POST, CommandPath(command[t]), <<>>, <<>>))
    /\ pc' = [pc EXCEPT ![t] = "cmd_wait"]
    /\ UNCHANGED <<invs, route, body, command, params, rd, locals, ret,
                   response, infos>>

\* The response arrives: execute_command returns it, answered 200.
CmdResponse(t) ==
    /\ pc[t] = "cmd_wait"
    /\ LET resp == ServerReply(req[t]) IN
       /\ sent' = [sent EXCEPT ![t] = Resolved(t, "response", resp)]
       /\ Return(t, [ret[t] EXCEPT !.state = "returned", !.resp = resp],
                 [NoResponse EXCEPT !.status = 200,
                                    !.keys = {"result", "code", "payload"},
                                    !.result = "executed",
                                    !.code = CodeName(resp.code),
                                    !.payload = Decode(resp.payload)])
    /\ req' = [req EXCEPT ![t] = NoReq]
    /\ UNCHANGED <<invs, route, body, command, params, ctx, leaked, rd,
                   locals, gets, infos>>

\* The exchange fails: execute_command raises, answered 500.
CmdFailed(t) ==
    /\ pc[t] = "cmd_wait"
    /\ sent' = [sent EXCEPT ![t] = Resolved(t, "failed", NoResp)]
    /\ Return(t, Raised(ret[t], ErrTransport), ErrorResponse(500, ErrTransport))
    /\ req' = [req EXCEPT ![t] = NoReq]
    /\ UNCHANGED <<invs, route, body, command, params, ctx, leaked, rd,
                   locals, gets, infos>>

\* ------------------------------------------------------------- POST /reg
\* reg_handler is entered and suspends in request.json().
RegRequest(t, b) ==
    /\ pc[t] = "idle"
    /\ invs < MaxInv
    /\ invs' = invs + 1
    /\ route' = [route EXCEPT ![t] = "/reg"]
    /\ body' = [body EXCEPT ![t] = b]
    /\ pc' = [pc EXCEPT ![t] = "reg_json"]
    /\ UNCHANGED <<command, params, ctx, leaked, req, rd, locals,
                   sent, ret, response, gets, infos>>

\* data of reg_handler: the parsed body, {} when request.json() raises.
RegData(b) == IF b.json = "invalid" THEN EmptyObject ELSE b

\* reg_handler with one try block around parsing and registering, as in
\* cmd_handler: a body that is not JSON is answered 500 without registering.
RegDispatch_OneTry(t) ==
    /\ pc[t] = "reg_json"
    /\ IF body[t].json = "invalid"
       THEN /\ Return(t, NoCall, ErrorResponse(500, ErrJson))
            /\ UNCHANGED params
       ELSE /\ params' = [params EXCEPT ![t] = body[t]]
            /\ ret' = [ret EXCEPT ![t] = Call("register")]
            /\ pc' = [pc EXCEPT ![t] = "reg_ctx"]
            /\ UNCHANGED response
    /\ UNCHANGED <<invs, route, body, command, ctx, leaked, req, rd, locals,
                   sent, gets, infos>>

\* register(data) is called and suspends in _get_context.
RegDispatch(t) ==
    /\ pc[t] = "reg_json"
    /\ params' = [params EXCEPT ![t] = RegData(body[t])]
    /\ ret' = [ret EXCEPT ![t] = Call("register")]
    /\ pc' = [pc EXCEPT ![t] = "reg_ctx"]
    /\ UNCHANGED <<invs, route, body, command, ctx, leaked, req, rd, locals,
                   sent, response, gets, infos>>

\* reg_handler without its second try/except: the exception of register
\* leaves the handler and no response is built.
RegCtxFailed_Unhandled(t) ==
    /\ pc[t] = "reg_ctx"
    /\ Return(t, Raised(ret[t], ErrBind), NoResponse)
    /\ UNCHANGED <<invs, route, body, command, params, ctx, leaked, req, rd,
                   locals, sent, gets, infos>>

\* Creating the context raises: register raises, answered 500.
RegCtxFailed(t) ==
    /\ pc[t] = "reg_ctx"
    /\ Return(t, Raised(ret[t], ErrBind), ErrorResponse(500, ErrBind))
    /\ UNCHANGED <<invs, route, body, command, params, ctx, leaked, req, rd,
                   locals, sent, gets, infos>>

\* What building the query raises: "" when it raises nothing.  A number
\* does not support `in`; join rejects a list item that is no str.
QueryError(p) ==
    IF p.json = "number" THEN ErrNotContainer
    ELSE IF p.json = "object" /\ p.objects.t = "numlist" THEN ErrJoin
    ELSE ""

\* The query with the lifetime put before the endpoint name.
Query_LifetimeFirst(epname, p) ==
    LET base == <<"lt=86400", "ep=" \o epname, "b=U">> IN
    IF p.json = "object" /\ p.objects.t = "list"
    THEN Append(base, "lwm2m=" \o Join(p.objects.v))
    ELSE base

\* The uri_query register builds from params.
Query(epname, p) ==
    LET base == <<"ep=" \o epname, "lt=86400", "b=U">> IN
    IF p.json = "object" /\ p.objects.t = "list"
    THEN Append(base, "lwm2m=" \o Join(p.objects.v))
    ELSE base

\* The context is created and building the query raises: answered 500.
RegQueryRaises(t) ==
    /\ pc[t] = "reg_ctx"
    /\ _get_context(t)
    /\ UNCHANGED leaked
    /\ QueryError(params[t]) # ""
    /\ Return(t, Raised(ret[t], QueryError(params[t])),
              ErrorResponse(500, QueryError(params[t])))
    /\ UNCHANGED <<invs, route, body, command, params, req, rd, locals, sent,
                   gets, infos>>

\* The context is created and the POST on /rd is issued.
RegPost(t) ==
    /\ pc[t] = "reg_ctx"
    /\ _get_context(t)
    /\ UNCHANGED leaked
    /\ QueryError(params[t]) = ""
    /\ Request(t, ctx'[t], sent[t],
               Message(POST, LWM2M_REG_PATH, Query(DEVICE_EPNAME, params[t]), <<>>))
    /\ pc' = [pc EXCEPT ![t] = "reg_wait"]
    /\ UNCHANGED <<invs, route, body, command, params, rd, locals, ret,
                   response, infos>>

\* The response arrives: register returns it, answered 200.
RegResponse(t) ==
    /\ pc[t] = "reg_wait"
    /\ LET resp == ServerReply(req[t]) IN
       /\ sent' = [sent EXCEPT ![t] = Resolved(t, "response", resp)]
       /\ Return(t, [ret[t] EXCEPT !.state = "returned", !.resp = resp],
                 [NoResponse EXCEPT !.status = 200,
                                    !.keys = {"result", "code", "location", "payload"},
                                    !.result = "registered",
                                    !.code = CodeName(resp.code),
                                    !.location = resp.location_path,
                                    !.payload = Decode(resp.payload)])
    /\ req' = [req EXCEPT ![t] = NoReq]
    /\ UNCHANGED <<invs, route, body, command, params, ctx, leaked, rd,
                   locals, gets, infos>>

\* The exchange fails: register raises, answered 500.
RegFailed(t) ==
    /\ pc[t] = "reg_wait"
    /\ sent' = [sent EXCEPT ![t] = Resolved(t, "failed", NoResp)]
    /\ Return(t, Raised(ret[t], ErrTransport), ErrorResponse(500, ErrTransport))
    /\ req' = [req EXCEPT ![t] = NoReq]
    /\ UNCHANGED <<invs, route, body, command, params, ctx, leaked, rd,
                   locals, gets, infos>>

\* ------------------------------------------------------------ specification
Next ==
    \E t \in Tasks :
        \/ InfoRequest(t)
        \/ InfoCtxCreated(t)
        \/ InfoCtxFailed(t)
        \/ InfoReadResponse(t)
        \/ InfoReadFailed(t)
        \/ \E b \in CmdBodies : CmdRequest(t, b)
        \/ CmdBadBody(t)
        \/ CmdMissing(t)
        \/ CmdDispatch(t)
        \/ CmdCtxFailed(t)
        \/ CmdUnknown(t)
        \/ CmdPost(t)
        \/ CmdResponse(t)
        \/ CmdFailed(t)
        \/ \E b \in RegBodies : RegRequest(t, b)
        \/ RegDispatch(t)
        \/ RegCtxFailed(t)
        \/ RegQueryRaises(t)
        \/ RegPost(t)
        \/ RegResponse(t)
        \/ RegFailed(t)
        \/ Deliver(t)

Spec == Init /\ [][Next]_vars

\* What a task that has entered a handler does next: every step that ends
\* one of its awaits (request.json(), create_client_context, the response
\* of an exchange) and the delivery of its HTTP response.
Progress(t) ==
    \/ InfoCtxCreated(t)
    \/ InfoCtxFailed(t)
    \/ InfoReadResponse(t)
    \/ InfoReadFailed(t)
    \/ CmdBadBody(t)
    \/ CmdMissing(t)
    \/ CmdDispatch(t)
    \/ CmdCtxFailed(t)
    \/ CmdUnknown(t)
    \/ CmdPost(t)
    \/ CmdResponse(t)
    \/ CmdFailed(t)
    \/ RegDispatch(t)
    \/ RegCtxFailed(t)
    \/ RegQueryRaises(t)
    \/ RegPost(t)
    \/ RegResponse(t)
    \/ RegFailed(t)
    \/ Deliver(t)

\* The event loop of web.run_app runs every task whose await has ended, and
\* the transport ends every await (it resolves or fails every context
\* creation and every exchange). Requests arrive or not: no fairness there.
FairSpec == Spec /\ \A t \in Tasks : WF_vars(Progress(t))

\* ---------------------------------------------------------------- claims
\* What the claims name, written out independently of the definitions above.
SnapshotKeys ==
    {"identity", "memory_free", "memory_total", "network", "firmware_state",
     "firmware_update_result", "location"}

SnapshotPath ==
    [identity               |-> "/3/0",
     memory_free            |-> "/3/0/10",
     memory_total           |-> "/3/0/9",
     network                |-> "/4/0",
     firmware_state         |-> "/5/0/3",
     firmware_update_result |-> "/5/0/5",
     location               |-> "/6/0"]

CommandTable ==
    [reboot |-> "/3/0/4", factory_reset |-> "/3/0/5", firmware_update |-> "/5/0/2"]

\* get_device_info of task t has ended, with or without a context.
InfoEnded(t) == route[t] = "/info" /\ pc[t] = "done"

\* ... and all its reads took place.
InfoRan(t) == InfoEnded(t) /\ ctx[t] # NoCtx

\* The exchanges of t on path p.
OnPath(t, p) == {i \in 1..Len(sent[t]) : sent[t][i].req.path = p}

\* execute_command of task t was called with a command of the table / with
\* another command.
InTable(c) == c.t = "str" /\ c.v[1] \in DOMAIN CommandTable
KnownCommand(t) == ret[t].op = "execute_command" /\ InTable(command[t])
UnknownCommand(t) == ret[t].op = "execute_command" /\ ~InTable(command[t])
Ended(t) == pc[t] = "done"

\* C1: whatever reads fail, get_device_info returns (does not raise) a
\* mapping with exactly the seven keys; when all seven reads failed every
\* value is None.
C1_SevenKeysWhateverFails ==
    \A t \in Tasks : InfoRan(t) =>
        /\ Len(sent[t]) = 7
        /\ ret[t].state = "returned"
        /\ DOMAIN ret[t].info = SnapshotKeys
        /\ (\A i \in 1..7 : sent[t][i].outcome = "failed")
              => \A k \in SnapshotKeys : ret[t].info[k] = None

C1_AllSevenFailed ==
    \E t \in Tasks :
        /\ InfoRan(t)
        /\ \A i \in 1..7 : sent[t][i].outcome = "failed"
        /\ ret[t].state = "returned"

\* C2: in the returned snapshot a field is None exactly when the read of its
\* own path failed in transport, and otherwise is the decoded payload of the
\* response to the GET on its own path.
C2_FieldFromOwnPath ==
    \A t \in Tasks : InfoRan(t) =>
        \A k \in SnapshotKeys :
            /\ Cardinality(OnPath(t, SnapshotPath[k])) = 1
            /\ \A i \in OnPath(t, SnapshotPath[k]) :
                  /\ sent[t][i].req.code = GET
                  /\ (sent[t][i].outcome = "failed") <=> (ret[t].info[k] = None)
                  /\ sent[t][i].outcome = "response"
                        => /\ sent[t][i].resp = ServerReply(Message(GET, SnapshotPath[k], <<>>, <<>>))
                           /\ ret[t].info[k] = Str(Utf8Ignore(sent[t][i].resp.payload))

C2_OnlyNetworkFailed ==
    \E t \in Tasks :
        /\ InfoRan(t)
        /\ \A i \in 1..7 :
              (sent[t][i].outcome = "failed") <=> (sent[t][i].req.path = "/4/0")
        /\ ret[t].info["network"] = None
        /\ ret[t].info["location"] = Str(<<233>>)
        /\ ret[t].info["memory_free"] = Str(<<49, 48>>)

\* C3: info_handler always answers with the seven-field snapshot, never with
\* an error result, also when creating the context fails.
C3_InfoNeverAnError ==
    \A t \in Tasks : InfoEnded(t) =>
        /\ response[t].status = 200
        /\ response[t].keys = SnapshotKeys
        /\ DOMAIN response[t].info = SnapshotKeys

\* C4: a read answered with a non-success status leaves None in its field;
\* a field is a decoded string only when the status of its response is a
\* success.
C4_NonSuccessIsUnavailable ==
    \A t \in Tasks : InfoRan(t) =>
        \A k \in SnapshotKeys : \A i \in OnPath(t, SnapshotPath[k]) :
            /\ (sent[t][i].outcome = "response" /\ ~IsSuccessful(sent[t][i].resp.code))
                  => ret[t].info[k] = None
            /\ ret[t].info[k].tag = "str"
                  => (sent[t][i].outcome = "response" /\ IsSuccessful(sent[t][i].resp.code))

\* C5: an invocation of get_device_info whose context is created issues one
\* GET to each of the seven paths and nothing else, whatever the earlier
\* reads gave; nothing is reused between invocations, so the GETs issued are
\* seven per such invocation.
NoInfoRunning == \A t \in Tasks : pc[t] \notin {"info_ctx", "info_wait"}

C5_SevenReadsEachTime ==
    /\ \A t \in Tasks : route[t] = "/info" =>
          /\ \A i \in 1..Len(sent[t]) :
                /\ sent[t][i].req.code = GET
                /\ sent[t][i].req.path \in {SnapshotPath[k] : k \in SnapshotKeys}
                /\ sent[t][i].req.path # "/3/0/7"
                /\ \A j \in 1..Len(sent[t]) : sent[t][j].req.path = sent[t][i].req.path => i = j
          /\ InfoRan(t) => Len(sent[t]) = 7
    /\ NoInfoRunning => gets = 7 * infos

C5_TwoInvocationsFourteenReads ==
    /\ NoInfoRunning
    /\ infos = 2
    /\ gets = 14
    /\ \E t \in Tasks : InfoRan(t) /\ sent[t][1].outcome = "failed"

\* The one exchange the Command Table gives a command: a POST on the mapped
\* path with no query and no payload.
TablePost(c) == Message(POST, CommandTable[c.v[1]], <<>>, <<>>)

\* C6 as stated: every invocation of execute_command with a command of the
\* table issues exactly one POST, on the mapped path, with no payload, and
\* nothing else, also when the exchange fails.
C6_OnePostPerCommand ==
    \A t \in Tasks : (KnownCommand(t) /\ Ended(t)) =>
        /\ Len(sent[t]) = 1
        /\ sent[t][1].req = TablePost(command[t])

\* C6 amended: an invocation of execute_command with a command of the table
\* issues no exchange before its context is created and none at all when
\* creating it fails; once the context is created it issues exactly one
\* POST, on the mapped path, with no payload, and nothing else, also when
\* that exchange fails.
C6_OnePostOnceContextCreated ==
    \A t \in Tasks : KnownCommand(t) =>
        /\ ctx[t] = NoCtx => sent[t] = <<>>
        /\ ctx[t] # NoCtx =>
              /\ Len(sent[t]) = 1
              /\ sent[t][1].req = TablePost(command[t])

C6_FailedPostNotRetried ==
    \E t \in Tasks :
        /\ KnownCommand(t) /\ Ended(t)
        /\ command[t] = JStr("factory_reset")
        /\ Len(sent[t]) = 1
        /\ sent[t][1].outcome = "failed"
        /\ sent[t][1].req.path = "/3/0/5"

\* C7: for a command that is not in the table execute_command raises and
\* the invocation issues no exchange.
C7_UnknownCommandNoExchange ==
    \A t \in Tasks : UnknownCommand(t) =>
        /\ sent[t] = <<>>
        /\ req[t] = NoReq
        /\ Ended(t) => ret[t].state = "raised"

C7_UnknownCommandRaised ==
    \E t \in Tasks :
        /\ UnknownCommand(t) /\ Ended(t)
        /\ command[t] = JStr("shutdown")
        /\ ret[t].err = ErrUnknown
        /\ sent[t] = <<>>

\* C8: for a command that is not in the table no context is created before
\* the failure, and the failure is the unknown-command error whether or not
\* a context could be created.
C8_UnknownBeforeContext ==
    \A t \in Tasks : UnknownCommand(t) =>
        /\ ctx[t] = NoCtx
        /\ Ended(t) => ret[t].err = ErrUnknown

\* C9: cmd_handler answers an unknown command with a client error, in
\* another status category than its answer to a failed exchange or context
\* of a command of the table.
TransportFailure(t) ==
    KnownCommand(t) /\ Ended(t) /\ ret[t].state = "raised"

C9_UnknownIsClientError ==
    \A t \in Tasks : (UnknownCommand(t) /\ Ended(t)) =>
        /\ response[t].status \div 100 = 4
        /\ \A u \in Tasks : TransportFailure(u) =>
              response[u].status \div 100 # response[t].status \div 100

\* C10: a parsed body without a command, or with an empty one, is answered
\* 400 "Missing command parameter", and nothing is dispatched: no call of
\* execute_command, no context, no exchange.
NoCommand(t) ==
    /\ route[t] = "/cmd"
    /\ body[t].json = "object"
    /\ body[t].command \in {JAbsent, JStr("")}

Registering(t) == ret[t].op = "register"
Executing(t) == ret[t].op = "execute_command"

\* C11: reg_handler and cmd_handler answer "registered" / "executed" only
\* when the status of the server's response is a success; a response with
\* another status is answered with an error result.
C11_NonSuccessIsAnError ==
    \A t \in Tasks : ((Registering(t) \/ Executing(t)) /\ Ended(t)) =>
        /\ response[t].result \in {"registered", "executed"}
              => (ret[t].state = "returned" /\ IsSuccessful(ret[t].resp.code))
        /\ (ret[t].state = "returned" /\ ~IsSuccessful(ret[t].resp.code))
              => (response[t].status # 200 /\ response[t].keys = {"error"})

\* The three parameters every registration starts with.
DefaultQuery == <<"ep=raspi5", "lt=86400", "b=U">>

\* An exchange of a registration is a POST on /rd with an empty payload
\* whose query starts with the three parameters, and is exactly the three
\* when the options have no objects entry.
RegistrationExchange(t, i) ==
    LET m == sent[t][i].req IN
    /\ m.code = POST
    /\ m.path = "/rd"
    /\ m.payload = <<>>
    /\ Len(m.uri_query) >= 3
    /\ SubSeq(m.uri_query, 1, 3) = DefaultQuery
    /\ params[t].objects = JAbsent => m.uri_query = DefaultQuery

\* C12 as stated: every invocation of register issues exactly one exchange,
\* a POST on /rd with an empty payload whose query starts with ep=<name>,
\* lt=86400, b=U and is exactly these three without an objects entry.
C12_OneRegistrationExchange ==
    \A t \in Tasks : (Registering(t) /\ Ended(t)) =>
        /\ Len(sent[t]) = 1
        /\ RegistrationExchange(t, 1)

\* The options from which register builds its query without raising: an
\* object (or array) whose objects entry is not a list holding a non-string.
QueryBuilds(t) ==
    /\ params[t].json \in {"object", "array"}
    /\ params[t].objects.t # "numlist"

\* C12 amended: an invocation of register issues no exchange before its
\* context is created, and none at all when creating the context or building
\* the query raises; once the context is created and the query built it has
\* issued exactly one exchange, of the form C12 states.
C12_OneExchangeOnceContextCreated ==
    \A t \in Tasks : Registering(t) =>
        /\ (ctx[t] = NoCtx \/ ~QueryBuilds(t)) => sent[t] = <<>>
        /\ (ctx[t] # NoCtx /\ QueryBuilds(t)) =>
              /\ Len(sent[t]) = 1
              /\ RegistrationExchange(t, 1)

C12_RegisteredWithoutObjects ==
    \E t \in Tasks :
        /\ Registering(t) /\ Ended(t)
        /\ params[t] = EmptyObject
        /\ Len(sent[t]) = 1
        /\ sent[t][1].req.uri_query = DefaultQuery
        /\ sent[t][1].outcome = "response"

\* C13: the query of a registration has an lwm2m parameter exactly when the
\* options supply a non-empty object list; it is then the fourth parameter,
\* lwm2m= followed by the objects joined by commas in the caller's order.
\* An empty list gives the three parameters only.
JoinedObjects(xs) ==
    CASE xs = <<"3", "5">> -> "lwm2m=3,5"
      [] xs = <<"5", "3">> -> "lwm2m=5,3"
      [] OTHER             -> "lwm2m=?"

C13_ObjectsParameterIffNonEmpty ==
    \A t \in Tasks : \A i \in 1..Len(sent[t]) : Registering(t) =>
        LET q == sent[t][i].req.uri_query
            o == params[t].objects
        IN /\ Len(q) \in {3, 4}
           /\ (Len(q) = 4) <=> (o.t = "list" /\ o.v # <<>>)
           /\ Len(q) = 4 => q[4] = JoinedObjects(o.v)

\* C14: every invocation of reg_handler and cmd_handler that ends, ends with
\* a response: a result, or an error result that carries the cause; an
\* exception of context creation, of the exchange or of parsing the request
\* never leaves the handler.
C14_FailuresBecomeErrorResults ==
    \A t \in Tasks : route[t] \in {"/reg", "/cmd"} =>
        /\ ret[t].state = "raised" => Ended(t)
        /\ Ended(t) =>
              /\ response[t].status \in {200, 400, 500}
              /\ response[t].status = 200
                    => /\ response[t].result \in {"registered", "executed"}
                       /\ ret[t].state = "returned"
              /\ response[t].status # 200
                    => /\ response[t].keys = {"error"}
                       /\ response[t].error # ""
              /\ ret[t].state = "raised"
                    => /\ response[t].status = 500
                       /\ response[t].error = ret[t].err

C14_ContextFailureAnswered ==
    \E t \in Tasks :
        /\ route[t] = "/reg" /\ Ended(t)
        /\ ret[t].state = "raised"
        /\ ret[t].err = ErrBind
        /\ response[t] = ErrorResponse(500, ErrBind)

\* C15: a request body of reg_handler that is empty, absent or not JSON is
\* taken as the empty options: register is called with {} and the exchange
\* it issues is the POST on /rd with exactly the three default parameters;
\* the body is never the cause of an error result.
UnparsedRegistration(t) == route[t] = "/reg" /\ body[t].json = "invalid"

OwnRegistrationCode(t) ==
    IF params[t].objects.t = "list" /\ params[t].objects.v # <<>> THEN 201 ELSE 400

C16_NoCrossTalk ==
    \A t \in Tasks :
        /\ (Executing(t) /\ ret[t].state = "returned") =>
              /\ ret[t].resp = ServerReply(TablePost(command[t]))
              /\ response[t].code = CodeName(ServerReply(TablePost(command[t])).code)
        /\ (Registering(t) /\ ret[t].state = "returned") =>
              /\ ret[t].resp.code = OwnRegistrationCode(t)
              /\ response[t].code = CodeName(OwnRegistrationCode(t))
        /\ (route[t] = "/info" /\ ret[t].state = "returned") =>
              \A k \in SnapshotKeys :
                  ret[t].info[k] \in
                      {None,
                       Str(Utf8Ignore(ServerReply(Message(GET, SnapshotPath[k], <<>>, <<>>)).payload))}
        /\ \A i \in 1..Len(sent[t]) :
              /\ sent[t][i].req.code = (IF route[t] = "/info" THEN GET ELSE POST)
              /\ sent[t][i].outcome = "response"
                    => sent[t][i].resp = ServerReply(sent[t][i].req)

C16_TwoInvocationsInFlight ==
    \E t, u \in Tasks :
        /\ pc[t] = "info_wait"
        /\ Len(sent[t]) >= 2
        /\ sent[t][1].outcome = "response"
        /\ pc[u] = "cmd_wait"
        /\ sent[u][1].outcome = "pending"

\* C17: at any time at most one messaging context bound to the configured
\* local port is live: the contexts held by running invocations together
\* with the contexts of ended invocations that were never shut down.
LiveContexts == Cardinality({t \in Tasks : ctx[t] # NoCtx}) + leaked

C17_AtMostOneLiveContext == LiveContexts <= 1

\* C18: once register, execute_command or get_device_info has returned or
\* raised, every exchange the invocation issued has completed with a
\* response or a failure: none is outstanding.
Outstanding(t) == {i \in 1..Len(sent[t]) : sent[t][i].outcome = "pending"}

C18_NoFireAndForget ==
    \A t \in Tasks :
        (Ended(t) \/ ret[t].state \in {"returned", "raised"}) =>
            /\ Outstanding(t) = {}
            /\ req[t] = NoReq
            /\ \A i \in 1..Len(sent[t]) : sent[t][i].outcome \in {"response", "failed"}

C18_ReturnedAfterMixedOutcomes ==
    \E t \in Tasks :
        /\ InfoRan(t)
        /\ ret[t].state = "returned"
        /\ Len(sent[t]) = 7
        /\ \E i, j \in 1..7 : sent[t][i].outcome = "failed" /\ sent[t][j].outcome = "response"

\* C19: under fair scheduling and a transport that ends every await, every
\* invocation of info_handler eventually returns its snapshot, and every
\* invocation of reg_handler and cmd_handler eventually returns a response.
Entered(t) == pc[t] \notin {"idle", "done"}

C19_EveryInvocationReturns ==
    \A t \in Tasks :
        /\ (route[t] = "/info" /\ Entered(t))
              ~> (InfoEnded(t) /\ response[t].status = 200
                               /\ response[t].keys = SnapshotKeys)
        /\ (route[t] \in {"/reg", "/cmd"} /\ Entered(t)) ~> Ended(t)

\* The part of C19 that does not depend on what info_handler answers: every
\* invocation of every handler eventually returns some response.
EveryInvocationEnds == \A t \in Tasks : Entered(t) ~> Ended(t)

\* C20: within one invocation of get_device_info the reads are issued one
\* after the other in the order identity, memory_free, memory_total,
\* network, firmware_state, firmware_update_result, location: only the last
\* issued read can be outstanding, and every read uses the context the
\* invocation created at its start.
ReadOrder == <<"/3/0", "/3/0/10", "/3/0/9", "/4/0", "/5/0/3", "/5/0/5", "/6/0">>

C20_ReadsSequentialOnOneContext ==
    \A t \in Tasks :
        route[t] = "/info" =>
            /\ Len(sent[t]) <= 7
            /\ Cardinality(Outstanding(t)) <= 1
            /\ \A i \in 1..Len(sent[t]) :
                  /\ sent[t][i].req.code = GET
                  /\ sent[t][i].req.path = ReadOrder[i]
                  /\ sent[t][i].ctx = ctx[t]
                  /\ ctx[t] # NoCtx
                  /\ sent[t][i].outcome = "pending" => i = Len(sent[t])
            /\ pc[t] = "info_wait" => (Outstanding(t) = {Len(sent[t])} /\ rd[t] = Len(sent[t]))

C20_LastReadOutstanding ==
    \E t \in Tasks :
        /\ route[t] = "/info"
        /\ pc[t] = "info_wait"
        /\ Len(sent[t]) = 7
        /\ sent[t][7].outcome = "pending"
        /\ sent[t][6].outcome = "failed"
        /\ sent[t][1].outcome = "response"

====
